---------------------------- MODULE Spec2Model ----------------------------
(* Model of the indoor feng shui analysis of QiMatrix                      *)
(* (frontend/indoor-analysis.js): the item catalog, the layout scorer      *)
(* calculateDesignFengShui with its four sub-scores and the recommendation *)
(* rules.  JavaScript numbers are IEEE-754 binary64; the arithmetic of the *)
(* scores is modelled bit-exactly (section "binary64"), because results    *)
(* are rounded and compared at exact halves and band limits.               *)
EXTENDS Integers, Sequences, FiniteSets, TLC

(***************************************************************************)
(* Bounds of the model                                                     *)
(***************************************************************************)
\* longest item list drawn from the whole catalog
MaxLen == 1
\* longest item list drawn from the short list types
MaxShort == 3
\* longest item list of tvs and beds
MaxBulk == 21
\* longest item list of tvs, beds, clocks and mirrors
MaxMix == 8

(***************************************************************************)
(* The item catalog                                                        *)
(***************************************************************************)
ElementNames == <<"wood", "fire", "earth", "metal", "water">>

elementFengShuiData ==
    [bed        |-> [element |-> "earth", energy |-> "yin"],
     sofa       |-> [element |-> "earth", energy |-> "yin"],
     desk       |-> [element |-> "wood",  energy |-> "yang"],
     table      |-> [element |-> "wood",  energy |-> "neutral"],
     chair      |-> [element |-> "wood",  energy |-> "yang"],
     wardrobe   |-> [element |-> "wood",  energy |-> "yin"],
     bookshelf  |-> [element |-> "wood",  energy |-> "yang"],
     tv         |-> [element |-> "fire",  energy |-> "yang"],
     mirror     |-> [element |-> "water", energy |-> "yang"],
     painting   |-> [element |-> "fire",  energy |-> "yang"],
     clock      |-> [element |-> "metal", energy |-> "yang"],
     vase       |-> [element |-> "earth", energy |-> "yin"],
     rug        |-> [element |-> "earth", energy |-> "yin"],
     curtain    |-> [element |-> "water", energy |-> "yin"],
     window     |-> [element |-> "metal", energy |-> "yang"],
     door       |-> [element |-> "wood",  energy |-> "yang"],
     fountain   |-> [element |-> "water", energy |-> "yang"],
     crystals   |-> [element |-> "earth", energy |-> "yang"],
     bamboo     |-> [element |-> "wood",  energy |-> "yang"],
     plant      |-> [element |-> "wood",  energy |-> "yang"],
     bonsai     |-> [element |-> "wood",  energy |-> "yin"],
     flowers    |-> [element |-> "wood",  energy |-> "yang"],
     lamp       |-> [element |-> "fire",  energy |-> "yang"],
     chandelier |-> [element |-> "fire",  energy |-> "yang"],
     candle     |-> [element |-> "fire",  energy |-> "yang"]]

CatalogKeys == DOMAIN elementFengShuiData

(***************************************************************************)
(* binary64: the non-negative doubles of the score computations,           *)
(* held exactly as naturals in units of 2^-60, five limbs of 15 bits,      *)
(* least significant first (limb 5 is the integer part).  Every operation  *)
(* computes the exact result and rounds it to 53 significant bits, ties to *)
(* even, as IEEE-754 does.                                                 *)
(***************************************************************************)
LimbBase == 2 ^ 15

Pow2(k) == 2 ^ k

FromInt(n) == <<0, 0, 0, 0, n>>

BigIsZero(a) == \A i \in 1..5 : a[i] = 0

BigGeq(a, b) ==
    LET diff == {i \in 1..5 : a[i] # b[i]}
    IN  IF diff = {} THEN TRUE
        ELSE LET top == CHOOSE i \in diff : \A j \in diff : j <= i
             IN  a[top] > b[top]

BigAdd(a, b) ==
    LET s1 == a[1] + b[1]
        s2 == a[2] + b[2] + (s1 \div LimbBase)
        s3 == a[3] + b[3] + (s2 \div LimbBase)
        s4 == a[4] + b[4] + (s3 \div LimbBase)
        s5 == a[5] + b[5] + (s4 \div LimbBase)
    IN  <<s1 % LimbBase, s2 % LimbBase, s3 % LimbBase, s4 % LimbBase, s5>>

\* a - b for a >= b
BigSub(a, b) ==
    LET d1 == a[1] - b[1]
        d2 == a[2] - b[2] + (d1 \div LimbBase)
        d3 == a[3] - b[3] + (d2 \div LimbBase)
        d4 == a[4] - b[4] + (d3 \div LimbBase)
        d5 == a[5] - b[5] + (d4 \div LimbBase)
    IN  <<d1 % LimbBase, d2 % LimbBase, d3 % LimbBase, d4 % LimbBase, d5>>

BigMulSmall(a, k) ==
    LET p1 == a[1] * k
        p2 == a[2] * k + (p1 \div LimbBase)
        p3 == a[3] * k + (p2 \div LimbBase)
        p4 == a[4] * k + (p3 \div LimbBase)
        p5 == a[5] * k + (p4 \div LimbBase)
    IN  <<p1 % LimbBase, p2 % LimbBase, p3 % LimbBase, p4 % LimbBase, p5>>

\* quotient and remainder of a by the small natural n
BigDivSmall(a, n) ==
    LET t5 == a[5]
        t4 == (t5 % n) * LimbBase + a[4]
        t3 == (t4 % n) * LimbBase + a[3]
        t2 == (t3 % n) * LimbBase + a[2]
        t1 == (t2 % n) * LimbBase + a[1]
    IN  [q |-> <<t1 \div n, t2 \div n, t3 \div n, t4 \div n, t5 \div n>>,
         r |-> t1 % n]

\* index of the most significant non-zero limb of a, 0 for a = 0
TopLimb(a) ==
    IF BigIsZero(a) THEN 0
    ELSE CHOOSE i \in 1..5 : a[i] # 0 /\ \A j \in (i+1)..5 : a[j] = 0

\* number of significant bits of the limb x > 0
LimbBits(x) == CHOOSE k \in 1..15 : Pow2(k-1) <= x /\ x < Pow2(k)

BitLenAt(a, top) == IF top = 0 THEN 0 ELSE 15 * (top - 1) + LimbBits(a[top])

\* number of significant bits of a
BitLen(a) == BitLenAt(a, TopLimb(a))

\* a with its two low limbs replaced by the value low2 < 2^31, the carry
\* taken into the limbs above
CarryFrom4(a, low2, c3, c4) ==
    <<low2 % LimbBase, (low2 \div LimbBase) % LimbBase,
      c3 % LimbBase, c4 % LimbBase, a[5] + (c4 \div LimbBase)>>

CarryFrom3(a, low2, c3) == CarryFrom4(a, low2, c3, a[4] + (c3 \div LimbBase))

Carry(a, low2) == CarryFrom3(a, low2, a[3] + (low2 \div (LimbBase * LimbBase)))

\* round-to-nearest, ties-to-even: the dropped bits are rem, half is the
\* tie, and tie says that the tail below is non-zero or the kept part odd
RoundsUp(rem, half, tie) == rem > half \/ (rem = half /\ tie)

\* a with its d low bits (held in low = a[1] + a[2] * 2^15) rounded away
RoundLow(a, sticky, d, low) ==
    Carry(a, low - (low % Pow2(d))
              + (IF RoundsUp(low % Pow2(d), Pow2(d - 1),
                             sticky \/ (low \div Pow2(d)) % 2 = 1)
                 THEN Pow2(d) ELSE 0))

RoundTo(a, sticky, d) ==
    IF d <= 0 THEN a ELSE RoundLow(a, sticky, d, a[1] + a[2] * LimbBase)

\* a (plus a non-zero tail below the unit when sticky) rounded to 53
\* significant bits, round-to-nearest, ties-to-even
Round53(a, sticky) == RoundTo(a, sticky, BitLen(a) - 53)

\* x + y
FAdd(x, y) == Round53(BigAdd(x, y), FALSE)

\* Math.abs(x - y)
FAbsDiff(x, y) ==
    Round53(IF BigGeq(x, y) THEN BigSub(x, y) ELSE BigSub(y, x), FALSE)

\* x / n for an integer-valued n
RoundQuotient(d) == Round53(d.q, d.r # 0)

FDivInt(x, n) == RoundQuotient(BigDivSmall(x, n))

\* x * k for an integer-valued k
FMulInt(x, k) == Round53(BigMulSmall(x, k), FALSE)

\* x > y and x < y
FGreater(x, y) == ~BigGeq(y, x)

FLess(x, y) == ~BigGeq(x, y)

\* Math.round of a non-negative double: nearest integer, halves up
MathRound(x) == x[5] + (IF x[4] >= LimbBase \div 2 THEN 1 ELSE 0)

\* the doubles nearest to the decimal literals of the source
D0_3  == <<19648, 6553, 13107, 9830, 0>>
D0_25 == <<0, 0, 0, 8192, 0>>
D0_20 == <<13120, 26214, 19660, 6553, 0>>
D0_4  == <<26240, 19660, 6553, 13107, 0>>
D0_6  == <<6528, 13107, 26214, 19660, 0>>
D0_7  == <<13056, 26214, 19660, 22937, 0>>

(***************************************************************************)
(* The layout scorer                                                       *)
(***************************************************************************)
\* A value the code computes once and then uses (const x = e; ... x ...) is
\* written  CHOOSE r \in {F(x) : x \in {e}} : TRUE,  which is F(e) with e
\* evaluated first.

Types(elements) == {elements[i].type : i \in DOMAIN elements}

\* the tally loop of calculateDesignFengShui: one pass over the items,
\* skipping items whose type is no catalog key
\* faulty variant: a neutral item adds to no energy
TallyItem_NeutralSkipped(acc, item) ==
    IF item.type \in CatalogKeys
    THEN [elementCounts |->
              [acc.elementCounts EXCEPT
                  ![elementFengShuiData[item.type].element] = @ + 1],
          energyBalance |->
              IF elementFengShuiData[item.type].energy = "neutral"
              THEN acc.energyBalance
              ELSE [acc.energyBalance EXCEPT
                       ![elementFengShuiData[item.type].energy] = @ + 1]]
    ELSE acc

\* lines 398-402: the tallies after one more item
TallyItem(acc, item) ==
    IF item.type \in CatalogKeys
    THEN [elementCounts |->
              [acc.elementCounts EXCEPT
                  ![elementFengShuiData[item.type].element] = @ + 1],
          energyBalance |->
              [acc.energyBalance EXCEPT
                  ![IF elementFengShuiData[item.type].energy = "neutral"
                    THEN "yin" ELSE elementFengShuiData[item.type].energy] = @ + 1]]
    ELSE acc

RECURSIVE Tally(_, _)
Tally(elements, acc) ==
    IF elements = <<>> THEN acc
    ELSE CHOOSE r \in {Tally(Tail(elements), next) :
                          next \in {TallyItem(acc, Head(elements))}} : TRUE

ZeroTally ==
    [elementCounts |-> [wood |-> 0, fire |-> 0, earth |-> 0, metal |-> 0, water |-> 0],
     energyBalance |-> [yin |-> 0, yang |-> 0]]

\* faulty variant: the penalty is added to 100
ScoreOfPenalty_Added(penalty) == MathRound(FAdd(FromInt(100), penalty))

\* line 440-441: Math.round(Math.max(0, 100 - penalty))
ScoreOfPenalty(penalty) ==
    IF BigGeq(FromInt(100), penalty)
    THEN MathRound(FAbsDiff(FromInt(100), penalty))
    ELSE 0

\* sum + Math.abs(count - ideal), one step of the reduce of lines 436-438
AddDeviation(sum, count, ideal) == FAdd(sum, FAbsDiff(FromInt(count), ideal))

\* lines 436-438: the reduce over Object.values(counts), in key order,
\* from the i-th key on
RECURSIVE ReduceDeviation(_, _, _, _)
ReduceDeviation(counts, ideal, i, sum) ==
    IF i > Len(ElementNames) THEN sum
    ELSE CHOOSE r \in {ReduceDeviation(counts, ideal, i + 1, next) :
                          next \in {AddDeviation(sum, counts[ElementNames[i]], ideal)}} : TRUE

\* line 440: (variance / total) * 50
Penalty(variance, total) == FMulInt(FDivInt(variance, total), 50)

\* lines 435-441: the score of counts that sum to total > 0
ScoreOfVariance(variance, total) == ScoreOfPenalty(Penalty(variance, total))

\* lines 436-441, for the ideal count of line 435
BalanceAround(counts, total, ideal) ==
    CHOOSE r \in {ScoreOfVariance(variance, total) :
                    variance \in {ReduceDeviation(counts, ideal, 1, FromInt(0))}} : TRUE

BalanceOfCounts(counts, total) ==
    CHOOSE r \in {BalanceAround(counts, total, ideal) :
                    ideal \in {FDivInt(FromInt(total), 5)}} : TRUE

\* faulty variant: no deviation at all is scored as perfect balance
calculateElementBalanceScore_EmptyPerfect(counts) ==
    LET total == counts.wood + counts.fire + counts.earth + counts.metal + counts.water
    IN  IF total = 0 THEN 100 ELSE BalanceOfCounts(counts, total)

calculateElementBalanceScore(counts) ==
    LET total == counts.wood + counts.fire + counts.earth + counts.metal + counts.water
    IN  IF total = 0 THEN 0 ELSE BalanceOfCounts(counts, total)

\* lines 450-456: the tier of the Yang ratio
TierOfRatio(ratio) ==
    IF BigGeq(ratio, D0_4) /\ BigGeq(D0_6, ratio) THEN 100
    ELSE IF BigGeq(ratio, D0_3) /\ BigGeq(D0_7, ratio) THEN 80
    ELSE 60

\* the tiers with a band that excludes its lower limit
TierOfRatio_OpenBand(ratio) ==
    IF FGreater(ratio, D0_4) /\ BigGeq(D0_6, ratio) THEN 100
    ELSE IF BigGeq(ratio, D0_3) /\ BigGeq(D0_7, ratio) THEN 80
    ELSE 60

\* faulty variant: the ideal band excludes its lower limit
calculateEnergyBalanceScore_OpenBand(energy) ==
    IF energy.yin + energy.yang = 0 THEN 50
    ELSE TierOfRatio_OpenBand(FDivInt(FromInt(energy.yang), energy.yin + energy.yang))

\* faulty variant: no guard for an empty tally; 0 / 0 is NaN, every comparison
\* with NaN is false and the last tier is returned
calculateEnergyBalanceScore_NoGuard(energy) ==
    IF energy.yin + energy.yang = 0 THEN 60
    ELSE TierOfRatio(FDivInt(FromInt(energy.yang), energy.yin + energy.yang))

calculateEnergyBalanceScore(energy) ==
    IF energy.yin + energy.yang = 0 THEN 50
    ELSE TierOfRatio(FDivInt(FromInt(energy.yang), energy.yin + energy.yang))

\* faulty variant: the first breakpoint includes 5 items
calculateSpacialScore_Inclusive(elements) ==
    LET elementDensity == Len(elements)
    IN  IF elementDensity <= 5 THEN 90
        ELSE IF elementDensity < 10 THEN 85
        ELSE IF elementDensity < 15 THEN 75
        ELSE IF elementDensity < 20 THEN 65
        ELSE 50

calculateSpacialScore(elements) ==
    LET elementDensity == Len(elements)
    IN  IF elementDensity < 5 THEN 90
        ELSE IF elementDensity < 10 THEN 85
        ELSE IF elementDensity < 15 THEN 75
        ELSE IF elementDensity < 20 THEN 65
        ELSE 50

Bonus(cond, n) == IF cond THEN n ELSE 0

Min(a, b) == IF a <= b THEN a ELSE b

\* faulty variant: the office rules are the fallback of every other room type
calculateFunctionalScore_ElseOffice(elements, roomType) ==
    LET types == Types(elements)
        score ==
            IF roomType = "bedroom"
            THEN 70 + Bonus("bed" \in types, 10)
                    + Bonus("plant" \in types, 5)
                    - Bonus("mirror" \in types /\ "bed" \in types, 10)
                    + Bonus("lamp" \in types, 5)
            ELSE IF roomType = "living"
            THEN 70 + Bonus("sofa" \in types, 10)
                    + Bonus("plant" \in types, 5)
                    + Bonus("lamp" \in types \/ "chandelier" \in types, 5)
            ELSE 70 + Bonus("desk" \in types, 10)
                    + Bonus("chair" \in types, 5)
                    + Bonus("plant" \in types, 5)
                    + Bonus("bookshelf" \in types, 5)
    IN  Min(100, score)

\* faulty variant: the mirror penalty takes back only half of the bed bonus
calculateFunctionalScore_HalfPenalty(elements, roomType) ==
    LET types == Types(elements)
        score ==
            IF roomType = "bedroom"
            THEN 70 + Bonus("bed" \in types, 10)
                    + Bonus("plant" \in types, 5)
                    - Bonus("mirror" \in types /\ "bed" \in types, 5)
                    + Bonus("lamp" \in types, 5)
            ELSE IF roomType = "living"
            THEN 70 + Bonus("sofa" \in types, 10)
                    + Bonus("plant" \in types, 5)
                    + Bonus("lamp" \in types \/ "chandelier" \in types, 5)
            ELSE IF roomType = "office"
            THEN 70 + Bonus("desk" \in types, 10)
                    + Bonus("chair" \in types, 5)
                    + Bonus("plant" \in types, 5)
                    + Bonus("bookshelf" \in types, 5)
            ELSE 70
    IN  Min(100, score)

\* faulty variant: the bedroom looks for its bed in the first item only
calculateFunctionalScore_FirstItem(elements, roomType) ==
    LET types == Types(elements)
        bedFirst == elements # <<>> /\ Head(elements).type = "bed"
        score ==
            IF roomType = "bedroom"
            THEN 70 + Bonus(bedFirst, 10)
                    + Bonus("plant" \in types, 5)
                    - Bonus("mirror" \in types /\ bedFirst, 10)
                    + Bonus("lamp" \in types, 5)
            ELSE IF roomType = "living"
            THEN 70 + Bonus("sofa" \in types, 10)
                    + Bonus("plant" \in types, 5)
                    + Bonus("lamp" \in types \/ "chandelier" \in types, 5)
            ELSE IF roomType = "office"
            THEN 70 + Bonus("desk" \in types, 10)
                    + Bonus("chair" \in types, 5)
                    + Bonus("plant" \in types, 5)
                    + Bonus("bookshelf" \in types, 5)
            ELSE 70
    IN  Min(100, score)

calculateFunctionalScore(elements, roomType) ==
    LET types == Types(elements)
        score ==
            IF roomType = "bedroom"
            THEN 70 + Bonus("bed" \in types, 10)
                    + Bonus("plant" \in types, 5)
                    - Bonus("mirror" \in types /\ "bed" \in types, 10)
                    + Bonus("lamp" \in types, 5)
            ELSE IF roomType = "living"
            THEN 70 + Bonus("sofa" \in types, 10)
                    + Bonus("plant" \in types, 5)
                    + Bonus("lamp" \in types \/ "chandelier" \in types, 5)
            ELSE IF roomType = "office"
            THEN 70 + Bonus("desk" \in types, 10)
                    + Bonus("chair" \in types, 5)
                    + Bonus("plant" \in types, 5)
                    + Bonus("bookshelf" \in types, 5)
            ELSE 70
    IN  Min(100, score)

\* the recommendation messages (the two pictographs that open the mirror
\* warning and the affirmative message are left out)
RecWood    == "Add more wood elements (plants, furniture) for growth energy"
RecFire    == "Include fire elements (candles, red colors) for passion and warmth"
RecWater   == "Add water elements (fountain, mirror) for flow and prosperity"
RecEarth   == "Incorporate earth elements (crystals, pottery) for stability"
RecMetal   == "Include metal elements (clocks, metal frames) for clarity"
RecYang    == "Balance yang energy with softer, yin elements (curtains, rugs)"
RecYin     == "Add more yang energy with lighting and active elements"
RecPlants  == "Add plants for fresh air and positive energy"
RecMirror  == "Avoid placing mirrors directly facing the bed"
RecClutter == "Consider decluttering - too many items can block energy flow"
RecGood    == "Your room design shows good feng shui balance!"

\* recommendations.push(msg) when cond
PushIf(recs, cond, msg) == IF cond THEN Append(recs, msg) ELSE recs

\* faulty variant: the rules run in the key order of elementCounts, earth
\* before water
elementRecommendations_KeyOrder(recs, elements) ==
    LET r1 == PushIf(recs, elements.wood < 2, RecWood)
        r2 == PushIf(r1, elements.fire = 0, RecFire)
        r3 == PushIf(r2, elements.earth < 2, RecEarth)
        r4 == PushIf(r3, elements.metal = 0, RecMetal)
    IN  PushIf(r4, elements.water = 0, RecWater)

\* lines 498-502: the element deficiency rules
elementRecommendations(recs, elements) ==
    LET r1 == PushIf(recs, elements.wood < 2, RecWood)
        r2 == PushIf(r1, elements.fire = 0, RecFire)
        r3 == PushIf(r2, elements.water = 0, RecWater)
        r4 == PushIf(r3, elements.earth < 2, RecEarth)
    IN  PushIf(r4, elements.metal = 0, RecMetal)

\* lines 508-512, for a yangRatio that is a number
pushEnergy(recs, yangRatio) ==
    IF FGreater(yangRatio, D0_7) THEN Append(recs, RecYang)
    ELSE IF FLess(yangRatio, D0_3) THEN Append(recs, RecYin)
    ELSE recs

\* lines 505-512: the energy rule
energyRecommendations(recs, energy) ==
    \* 0 / 0 is NaN, and every comparison with NaN is false
    IF energy.yin + energy.yang = 0 THEN recs
    ELSE pushEnergy(recs, FDivInt(FromInt(energy.yang), energy.yin + energy.yang))

\* faulty variant: the mirror rule is the else branch of the plant rule
roomRecommendations_ElseIf(recs, placed, roomType) ==
    IF roomType = "bedroom"
    THEN IF "plant" \notin Types(placed) THEN Append(recs, RecPlants)
         ELSE PushIf(recs, "mirror" \in Types(placed), RecMirror)
    ELSE recs

\* lines 515-522: the room-specific rules
roomRecommendations(recs, placed, roomType) ==
    IF roomType = "bedroom"
    THEN PushIf(PushIf(recs, "plant" \notin Types(placed), RecPlants),
                "mirror" \in Types(placed), RecMirror)
    ELSE recs

\* faulty variant: the affirmative message closes every list
affirmIfEmpty_Always(recs) == Append(recs, RecGood)

\* lines 528-530: the affirmative message when no rule fired
affirmIfEmpty(recs) == PushIf(recs, Len(recs) = 0, RecGood)

\* faulty variant: the clutter warning starts above 20 items
generateRecommendations_Clutter20(elements, energy, placed, roomType) ==
    affirmIfEmpty(
        PushIf(roomRecommendations(
                   energyRecommendations(elementRecommendations(<<>>, elements), energy),
                   placed, roomType),
               Len(placed) > 20, RecClutter))

generateRecommendations(elements, energy, placed, roomType) ==
    affirmIfEmpty(
        PushIf(roomRecommendations(
                   energyRecommendations(elementRecommendations(<<>>, elements), energy),
                   placed, roomType),
               Len(placed) > 15, RecClutter))

\* faulty variant: Math.floor in place of Math.round
OverallScore_Floor(elementBalance, energyScore, spacialScore, functionalScore) ==
    FAdd(FAdd(FAdd(FMulInt(D0_3, elementBalance),
                   FMulInt(D0_25, energyScore)),
              FMulInt(D0_25, spacialScore)),
         FMulInt(D0_20, functionalScore))[5]

\* lines 411-416: the weighted sum, rounded
OverallScore(elementBalance, energyScore, spacialScore, functionalScore) ==
    MathRound(FAdd(FAdd(FAdd(FMulInt(D0_3, elementBalance),
                             FMulInt(D0_25, energyScore)),
                        FMulInt(D0_25, spacialScore)),
                   FMulInt(D0_20, functionalScore)))

\* lines 411-427: the overall score and the returned object
Result(elements, roomType, elementCounts, energyBalance, elementBalance, energyScore, spacialScore, functionalScore) ==
    [overallScore    |->
         OverallScore(elementBalance, energyScore, spacialScore, functionalScore),
     elementBalance  |-> elementBalance,
     energyScore     |-> energyScore,
     spacialScore    |-> spacialScore,
     functionalScore |-> functionalScore,
     elementCounts   |-> elementCounts,
     energyBalance   |-> energyBalance,
     recommendations |->
         generateRecommendations(elementCounts, energyBalance, elements, roomType)]

\* lines 405-409: the four sub-scores of the tallies
Scored(elements, roomType, elementCounts, energyBalance) ==
    CHOOSE r \in
        {Result(elements, roomType, elementCounts, energyBalance,
                elementBalance, energyScore, spacialScore, functionalScore) :
            elementBalance  \in {calculateElementBalanceScore(elementCounts)},
            energyScore     \in {calculateEnergyBalanceScore(energyBalance)},
            spacialScore    \in {calculateSpacialScore(elements)},
            functionalScore \in {calculateFunctionalScore(elements, roomType)}} : TRUE

calculateDesignFengShui(elements, roomType) ==
    CHOOSE r \in
        {Scored(elements, roomType, tally.elementCounts, tally.energyBalance) :
            tally \in {Tally(elements, ZeroTally)}} : TRUE

(***************************************************************************)
(* State: the arguments of one call of the scorer and what it returned     *)
(***************************************************************************)
VARIABLES
    placedElements,   \* the item list handed to the scorer
    roomTypeDesign,   \* the room type handed to the scorer
    pc,               \* "ready" before the call, "returned" after it
    analysis,         \* the returned IndoorAnalysis
    radiusValue,      \* document.getElementById('radius').value, a string
    selectedLocation, \* the location picked on the map, or null
    circle,           \* the radius of the circle on the map, or no circle
    requestData,      \* the body of the last analysis request, or none
    locationDisplay,  \* what #selectedLocationDisplay shows, or hidden
    pendingGeocodes,  \* the reverse-geocode requests without a reply yet
    pendingSearches,  \* the search requests without a reply yet
    searchDisabled,   \* disabled of #searchBtn
    pendingRequests,  \* the analysis requests without a response yet
    requestsStarted,  \* how many analysis requests were started
    shownRequest,     \* the request whose loading state or outcome the
                      \* dashboard shows, 0 before the first
    data,             \* the response of the backend to that request
    dashboard,        \* what the dashboard element shows
    currentMode,      \* null, 'design' or 'upload'
    canvasElements,   \* the .placed-element nodes of #roomCanvas, in order
    canvasGuide,      \* style.display of .canvas-guide
    itemCount,        \* textContent of #itemCount
    designResults,    \* style.display of #designResults
    analyzeDisabled,  \* disabled of the analyze button of design mode
    designTimers,     \* the pending 1 s timers of analyzeDesign
    alertMessage,     \* the message of the open alert box, or null
    clock,            \* Date.now()
    uploadedPhotos,   \* the five photo slots
    pendingReads,     \* slots with a FileReader at work, started since the
                      \* last resetUpload
    staleReads,       \* slots with a FileReader at work that a resetUpload
                      \* found at work
    analyzePhotosDisabled, \* disabled of #analyzePhotosBtn
    photoTimers,      \* the pending 2 s timers of analyzePhotos, started
                      \* since the last resetUpload
    staleTimers,      \* the pending timers that a resetUpload found pending
    uploadResults,    \* style.display of #uploadResults
    uploadOverallScore \* textContent of #uploadOverallScore

scorerVars == <<placedElements, roomTypeDesign, pc, analysis>>

geoVars == <<locationDisplay, pendingGeocodes, pendingSearches, searchDisabled>>

reqVars == <<pendingRequests, requestsStarted, shownRequest>>

mapVars ==
    <<radiusValue, selectedLocation, circle, requestData, geoVars, reqVars>>

dashVars == <<data, dashboard>>

designVars ==
    <<currentMode, canvasElements, canvasGuide, itemCount, designResults,
      analyzeDisabled, designTimers, alertMessage, clock>>

uploadVars ==
    <<uploadedPhotos, pendingReads, staleReads, analyzePhotosDisabled,
      photoTimers, staleTimers, uploadResults, uploadOverallScore>>

uiVars == <<designVars, uploadVars>>

vars == <<scorerVars, mapVars, dashVars, uiVars>>

\* a type that is no key of the catalog
UnknownType == "aquarium"

AllTypes == CatalogKeys \cup {UnknownType}

\* the three room types the scorer knows, one it does not know, and the
\* empty string of an unset selection
RoomTypes == {"bedroom", "living", "office", "kitchen", ""}

\* the items of a list of types (lines 134-140, without the icon); ids number
\* the placements, which go down a diagonal of the canvas
MkItems(ts) ==
    [i \in 1..Len(ts) |-> [id |-> i, type |-> ts[i], x |-> 10 * i, y |-> 10 * i]]

Repeat(t, n) == [i \in 1..n |-> t]

\* every list of at most MaxLen types
CatalogLists == UNION {[1..n -> AllTypes] : n \in 0..MaxLen}

\* one type of every pairing of element and energy that the bulk lists do
\* not have, a type that is no catalog key, and tv and bed
ShortTypes ==
    {"table", "wardrobe", "plant", "curtain", "crystals", UnknownType, "tv", "bed"}

\* every list of at most MaxShort of these types
ShortLists == UNION {[1..n -> ShortTypes] : n \in 0..MaxShort}

\* the item types the functional score and the room rules look at
FunctionalTypes ==
    <<"bed", "plant", "mirror", "lamp", "sofa", "chandelier", "desk",
      "chair", "bookshelf">>

\* one list for every set of functional types
SubsetLists ==
    {SelectSeq(FunctionalTypes, LAMBDA t : t \in S) :
        S \in SUBSET {FunctionalTypes[i] : i \in DOMAIN FunctionalTypes}}

\* runs of tv (fire, yang) and bed (earth, yin), at most MaxBulk items
BulkLists ==
    {Repeat("tv", a) \o Repeat("bed", b) :
        <<a, b>> \in {n \in (0..MaxBulk) \X (0..MaxBulk) : n[1] + n[2] <= MaxBulk}}

\* runs of tv, bed, clock (metal, yang) and mirror (water, yang), at most
\* MaxMix items
MixLists ==
    {Repeat("tv", a) \o Repeat("bed", b) \o Repeat("clock", c) \o Repeat("mirror", d) :
        <<a, b, c, d>> \in
            {n \in (0..MaxMix) \X (0..MaxMix) \X (0..MaxMix) \X (0..MaxMix) :
                n[1] + n[2] + n[3] + n[4] <= MaxMix}}

\* a room with two wood, two earth and one fire, water and metal item, three
\* of the seven items yin
CompleteRoom == <<"desk", "plant", "lamp", "curtain", "bed", "sofa", "clock">>

\* the complete room and every list left when items are taken out of it
RoomLists ==
    {SelectSeq(CompleteRoom, LAMBDA t : t \in S) :
        S \in SUBSET {CompleteRoom[i] : i \in DOMAIN CompleteRoom}}

InputLists ==
    CatalogLists \cup ShortLists \cup SubsetLists \cup BulkLists \cup MixLists
        \cup RoomLists

NoAnalysis ==
    [overallScore |-> 0, elementBalance |-> 0, energyScore |-> 0,
     spacialScore |-> 0, functionalScore |-> 0,
     elementCounts |-> ZeroTally.elementCounts,
     energyBalance |-> ZeroTally.energyBalance,
     recommendations |-> <<>>]

\* the map page as it loads: the radius input at its default, nothing
\* picked, drawn or sent
null == [null |-> TRUE]

NoLocation == null

NoCircle == null

NoRequest == null

NoDisplay == null

\* no request of the map page under way
NetIdle ==
    /\ locationDisplay = NoDisplay
    /\ pendingGeocodes = {}
    /\ pendingSearches = {}
    /\ searchDisabled = FALSE
    /\ pendingRequests = {}
    /\ requestsStarted = 0
    /\ shownRequest = 0

MapIdle ==
    /\ radiusValue = <<"5", "0", "0">>
    /\ selectedLocation = NoLocation
    /\ circle = NoCircle
    /\ requestData = NoRequest
    /\ NetIdle

\* the dashboard before any response
NoData == null

Blank == [view |-> "blank"]

DashIdle ==
    /\ data = NoData
    /\ dashboard = Blank

NoMode == "null"

NoAlert == "null"

\* the design mode as backToSelection leaves it (lines 65-74, 299-309), no
\* timer pending
DesignIdle ==
    /\ currentMode = NoMode
    /\ canvasElements = <<>>
    /\ canvasGuide = "flex"
    /\ itemCount = 0
    /\ designResults = "none"
    /\ analyzeDisabled = FALSE
    /\ designTimers = 0
    /\ alertMessage = NoAlert
    /\ clock = 0

Directions == {"north", "south", "east", "west", "floor"}

NoPhoto == "null"

\* the upload mode as resetUpload leaves it (lines 642-663), nothing in
\* flight and no score shown yet
UploadIdle ==
    /\ uploadedPhotos = [d \in Directions |-> NoPhoto]
    /\ pendingReads = {}
    /\ staleReads = {}
    /\ analyzePhotosDisabled = TRUE
    /\ photoTimers = 0
    /\ staleTimers = 0
    /\ uploadResults = "none"
    /\ uploadOverallScore = 0

UiIdle == DesignIdle /\ UploadIdle

Init ==
    /\ placedElements \in {MkItems(ts) : ts \in InputLists}
    /\ roomTypeDesign \in RoomTypes
    /\ pc = "ready"
    /\ analysis = NoAnalysis
    /\ MapIdle
    /\ DashIdle
    /\ UiIdle

\* one call calculateDesignFengShui(placedElements, roomType)
Score ==
    /\ pc = "ready"
    /\ analysis' = calculateDesignFengShui(placedElements, roomTypeDesign)
    /\ pc' = "returned"
    /\ UNCHANGED <<placedElements, roomTypeDesign, mapVars, dashVars, uiVars>>

Next == Score

Spec == Init /\ [][Next]_vars

\* the indoor designer with nothing placed and no call made
ScorerIdle ==
    /\ placedElements = <<>>
    /\ roomTypeDesign = ""
    /\ pc = "idle"
    /\ analysis = NoAnalysis

(***************************************************************************)
(* The radius of the map page: README.md, frontend/script.js               *)
(***************************************************************************)
DigitChars == {"0", "1", "5"}

DigitOf(c) == CASE c = "0" -> 0 [] c = "1" -> 1 [] c = "5" -> 5

\* what the radius input may hold: digits, a sign, a letter, a decimal point
Chars == DigitChars \cup {"-", "a", "."}

\* the number of the longest run of digits of s from position i on, acc
\* being the number of the digits before i
RECURSIVE DigitRun(_, _, _)
DigitRun(s, i, acc) ==
    IF i > Len(s) \/ s[i] \notin DigitChars THEN acc
    ELSE DigitRun(s, i + 1, 10 * acc + DigitOf(s[i]))

\* where the digits of s start: after an optional sign
FirstDigit(s) == IF s # <<>> /\ s[1] = "-" THEN 2 ELSE 1

\* parseInt(s) is NaN: no digit follows the optional sign
IsNaN(s) == FirstDigit(s) > Len(s) \/ s[FirstDigit(s)] \notin DigitChars

\* parseInt(s) when it is a number: the decimal digits up to the first
\* character that is none, with the sign
parseInt(s) ==
    IF FirstDigit(s) = 2 THEN 0 - DigitRun(s, 2, 0) ELSE DigitRun(s, 1, 0)

\* parseInt(document.getElementById('radius').value) || 500: NaN and 0 are
\* falsy
RadiusOf(s) == IF IsNaN(s) \/ parseInt(s) = 0 THEN 500 ELSE parseInt(s)

\* longest content of the radius input
MaxInput == 4

Contents == UNION {[1..n -> Chars] : n \in 0..MaxInput}

\* contents put into the input after the page has loaded
Retyped == {<<>>, <<"5", "0">>, <<"1", "5", "0", "0">>, <<"a">>}

PickedLocation == [lat |-> 39, lng |-> 116]

InitRadius ==
    /\ radiusValue \in Contents
    /\ selectedLocation = NoLocation
    /\ circle = NoCircle
    /\ requestData = NoRequest
    /\ NetIdle
    /\ ScorerIdle
    /\ DashIdle
    /\ UiIdle

\* lines 346-364, run by the input and change listeners of lines 372-387
updateCircleRadius ==
    IF selectedLocation # NoLocation /\ circle # NoCircle
    THEN circle' = [radius |-> RadiusOf(radiusValue')]
    ELSE UNCHANGED circle

\* the radius input gets a new content and its listeners run
InputRadius(s) ==
    /\ radiusValue # s
    /\ radiusValue' = s
    /\ updateCircleRadius
    /\ UNCHANGED <<selectedLocation, requestData, geoVars, reqVars, scorerVars,
                   dashVars, uiVars>>

LoadingAddress == "Loading address..."

\* `${lat.toFixed(6)}, ${lng.toFixed(6)}` of lines 412 and 305, for whole
\* degrees
CoordsText(lat, lng) == ToString(lat) \o ".000000, " \o ToString(lng) \o ".000000"

\* lines 410-426: the address, or the coordinates for an empty one, above
\* the coordinates
displaySelectedLocation(lat, lng, address) == [addressText |-> IF address = "" THEN CoordsText(lat, lng) ELSE address, coords |-> CoordsText(lat, lng)]

\* lines 283-327: a click on the map picks the location, asks the geocoder
\* for its address and draws the circle
handleMapClick(lat, lng) ==
    /\ selectedLocation' = [lat |-> lat, lng |-> lng, address |-> LoadingAddress]
    /\ locationDisplay' = displaySelectedLocation(lat, lng, LoadingAddress)
    /\ pendingGeocodes' = pendingGeocodes \cup {[lat |-> lat, lng |-> lng]}
    /\ circle' = [radius |-> RadiusOf(radiusValue)]
    /\ UNCHANGED <<radiusValue, requestData, pendingSearches, searchDisabled,
                   reqVars, scorerVars, dashVars, uiVars>>

\* the analysis requests a run may start
MaxRequests == 2

\* lines 582-592
Loading == [view |-> "loading"]

\* lines 533-563: the click on the analyze button, up to the await of
\* fetch
analyzeLocation ==
    /\ selectedLocation # NoLocation
    /\ requestsStarted < MaxRequests
    /\ requestData' =
           [latitude  |-> selectedLocation.lat,
            longitude |-> selectedLocation.lng,
            radius    |-> RadiusOf(radiusValue)]
    /\ dashboard' = Loading
    /\ requestsStarted' = requestsStarted + 1
    /\ pendingRequests' =
           pendingRequests \cup {[seq |-> requestsStarted + 1, body |-> requestData']}
    /\ shownRequest' = requestsStarted + 1
    /\ UNCHANGED <<radiusValue, selectedLocation, circle, geoVars, data,
                   scorerVars, uiVars>>

NextRadius ==
    \/ \E s \in Retyped : InputRadius(s)
    \/ handleMapClick(PickedLocation.lat, PickedLocation.lng)
    \/ analyzeLocation

SpecRadius == InitRadius /\ [][NextRadius]_vars

(***************************************************************************)
(* The dashboard of the map page: README.md, displayResults                *)
(***************************************************************************)
\* scores of a response, in tenths: 0, 0.5, 49.9, 78.3, 100
ScoreValues == {0, 5, 499, 783, 1000}

ScoreKeys == {"final_score", "traditional_score", "ai_score"}

\* a response has some of the keys, each with a score
Responses == UNION {[keys -> ScoreValues] : keys \in SUBSET ScoreKeys}

\* response[key] is truthy: a key the response does not have reads as
\* undefined, and undefined and 0 are falsy
Truthy(response, key) == key \in DOMAIN response /\ response[key] # 0

\* response[key] || 0
OrZero(response, key) == IF Truthy(response, key) THEN response[key] ELSE 0

\* v.toFixed(1) of a score in tenths: its whole part and its one decimal
toFixed1(v) == [whole |-> v \div 10, decimal |-> v % 10]

NoSpan == [shown |-> FALSE]

\* a location was clicked and its analysis requested: the response has
\* arrived and the dashboard still shows the loading state
InitDashboard ==
    /\ data \in Responses
    /\ dashboard = Loading
    /\ radiusValue = <<"5", "0", "0">>
    /\ selectedLocation = [lat |-> PickedLocation.lat, lng |-> PickedLocation.lng, address |-> LoadingAddress]
    /\ locationDisplay = displaySelectedLocation(PickedLocation.lat, PickedLocation.lng, LoadingAddress)
    /\ pendingGeocodes = {PickedLocation}
    /\ circle = [radius |-> 500]
    /\ requestData = [latitude |-> PickedLocation.lat, longitude |-> PickedLocation.lng, radius |-> 500]
    /\ pendingSearches = {}
    /\ searchDisabled = FALSE
    /\ pendingRequests = {}
    /\ requestsStarted = 1
    /\ shownRequest = 1
    /\ ScorerIdle
    /\ UiIdle

\* lines 606-650: the score circle and the sub-scores next to it
ResultsView(response) == [view |-> "results", finalScore |-> toFixed1(OrZero(response, "final_score")), traditional |-> toFixed1(OrZero(response, "traditional_score")), ai |-> IF Truthy(response, "ai_score") THEN toFixed1(response["ai_score"]) ELSE NoSpan]

displayResults ==
    /\ dashboard.view = "loading"
    /\ dashboard' = ResultsView(data)
    /\ UNCHANGED <<data, scorerVars, mapVars, uiVars>>

NextDashboard == displayResults

SpecDashboard == InitDashboard /\ [][NextDashboard]_vars

(***************************************************************************)
(* The requests of the map page: README.md, the replies of the geocoder    *)
(* and the responses of the backend, each arriving at any later time       *)
(***************************************************************************)
\* the places a run clicks on
Places == {PickedLocation, [lat |-> 31, lng |-> 121]}

\* result.regeocode.formattedAddress of line 435 and
\* location.formattedAddress of line 489
formattedAddress(lat, lng) == IF lat = 39 THEN "Tiananmen Square" ELSE "The Bund"

\* the text typed into #locationInput, and the first geocode the geocoder
\* finds for it (lines 486-489)
Queries == {"Tiananmen"}

Geocode(query) == PickedLocation

\* lines 304-306 after resolve(address) of line 437: the reply to the
\* reverse geocode of the click at (lat, lng).  Two clicks on one place
\* wait for one reply.
geocodeResolves(lat, lng) ==
    /\ [lat |-> lat, lng |-> lng] \in pendingGeocodes
    /\ pendingGeocodes' = pendingGeocodes \ {[lat |-> lat, lng |-> lng]}
    /\ selectedLocation' = [selectedLocation EXCEPT !.address = formattedAddress(lat, lng)]
    /\ locationDisplay' = displaySelectedLocation(lat, lng, formattedAddress(lat, lng))
    /\ UNCHANGED <<radiusValue, circle, requestData, pendingSearches,
                   searchDisabled, reqVars, scorerVars, dashVars, uiVars>>

\* lines 307-310 after reject of line 439
geocodeRejects(lat, lng) ==
    /\ [lat |-> lat, lng |-> lng] \in pendingGeocodes
    /\ pendingGeocodes' = pendingGeocodes \ {[lat |-> lat, lng |-> lng]}
    /\ locationDisplay' = displaySelectedLocation(lat, lng, CoordsText(lat, lng))
    /\ UNCHANGED <<radiusValue, selectedLocation, circle, requestData,
                   pendingSearches, searchDisabled, reqVars, scorerVars,
                   dashVars, uiVars>>

\* lines 451-471: the search button or the Enter key, with a query typed
searchLocation(query) ==
    /\ query # ""
    /\ searchDisabled' = TRUE
    /\ pendingSearches' = pendingSearches \cup {query}
    /\ UNCHANGED <<radiusValue, selectedLocation, circle, requestData,
                   locationDisplay, pendingGeocodes, reqVars, scorerVars,
                   dashVars, uiVars>>

\* lines 473-519: the geocoder found the place
searchFound(query) ==
    /\ query \in pendingSearches
    /\ pendingSearches' = pendingSearches \ {query}
    /\ searchDisabled' = FALSE
    /\ selectedLocation' = [lat |-> Geocode(query).lat, lng |-> Geocode(query).lng, address |-> formattedAddress(Geocode(query).lat, Geocode(query).lng)]
    /\ circle' = [radius |-> RadiusOf(radiusValue)]
    /\ locationDisplay' = displaySelectedLocation(Geocode(query).lat, Geocode(query).lng, formattedAddress(Geocode(query).lat, Geocode(query).lng))
    /\ UNCHANGED <<radiusValue, requestData, pendingGeocodes, reqVars,
                   scorerVars, dashVars, uiVars>>

\* lines 473-477 and 520-527: the geocoder found nothing, an alert says so
searchNotFound(query) ==
    /\ query \in pendingSearches
    /\ pendingSearches' = pendingSearches \ {query}
    /\ searchDisabled' = FALSE
    /\ UNCHANGED <<radiusValue, selectedLocation, circle, requestData,
                   locationDisplay, pendingGeocodes, reqVars, scorerVars,
                   dashVars, uiVars>>

\* the bodies response.json() gives
Answers == {[k \in ScoreKeys |-> 783], [k \in ScoreKeys |-> 499]}

\* error.message of line 576: of a fetch that failed, or of line 566
Failures == {"Failed to fetch", "HTTP error! status: 500"}

\* lines 594-603
ErrorView(message) == [view |-> "error", message |-> message]

\* lines 565-573: the response to request arrives with response.ok
responseArrives(request, response) ==
    /\ request \in pendingRequests
    /\ pendingRequests' = pendingRequests \ {request}
    /\ data' = response
    /\ dashboard' = ResultsView(response)
    /\ shownRequest' = request.seq
    /\ UNCHANGED <<radiusValue, selectedLocation, circle, requestData, geoVars,
                   requestsStarted, scorerVars, uiVars>>

\* lines 565-567 and 575-578: fetch fails or the response is not ok
requestFails(request, message) ==
    /\ request \in pendingRequests
    /\ pendingRequests' = pendingRequests \ {request}
    /\ dashboard' = ErrorView(message)
    /\ shownRequest' = request.seq
    /\ UNCHANGED <<radiusValue, selectedLocation, circle, requestData, geoVars,
                   requestsStarted, data, scorerVars, uiVars>>

\* the map page as it loads
InitMap ==
    /\ MapIdle
    /\ ScorerIdle
    /\ DashIdle
    /\ UiIdle

NextMap ==
    \/ \E place \in Places : handleMapClick(place.lat, place.lng)
    \/ \E place \in Places : geocodeResolves(place.lat, place.lng)
    \/ \E place \in Places : geocodeRejects(place.lat, place.lng)
    \/ \E query \in Queries : searchLocation(query)
    \/ \E query \in Queries : searchFound(query)
    \/ \E query \in Queries : searchNotFound(query)
    \/ analyzeLocation
    \/ \E request \in pendingRequests, response \in Answers : responseArrives(request, response)
    \/ \E request \in pendingRequests, message \in Failures : requestFails(request, message)

SpecMap == InitMap /\ [][NextMap]_vars

(***************************************************************************)
(* The design mode of the indoor page                                      *)
(***************************************************************************)
\* most items in placedElements and most nodes on the canvas
MaxPlaced == 2

\* latest millisecond of Date.now()
MaxClock == 2

\* the item types dragged from the library
DesignTypes == {"bed", "mirror"}

\* where an item is dropped
DropPoints == {[x |-> 40, y |-> 60]}

AlertPlaceFirst == "Please place some elements in your room before analyzing!"

\* what no handler of the design mode writes
outsideDesign == <<pc, mapVars, dashVars, uploadVars>>

\* a millisecond passes
Tick ==
    /\ clock < MaxClock
    /\ clock' = clock + 1
    /\ UNCHANGED <<scorerVars, mapVars, dashVars, uploadVars, currentMode,
                   canvasElements, canvasGuide, itemCount, designResults,
                   analyzeDisabled, designTimers, alertMessage>>

\* lines 54-63
selectMode(mode) ==
    /\ currentMode = NoMode
    /\ alertMessage = NoAlert
    /\ currentMode' = mode
    /\ UNCHANGED <<scorerVars, mapVars, dashVars, uploadVars, canvasElements,
                   canvasGuide, itemCount, designResults, analyzeDisabled,
                   designTimers, alertMessage, clock>>

\* lines 102-149; the id 'element_' + Date.now() is modelled by the
\* timestamp it is made of
placeElement(elementType, x, y) ==
    /\ currentMode = "design"
    /\ alertMessage = NoAlert
    /\ Len(placedElements) < MaxPlaced
    /\ Len(canvasElements) < MaxPlaced
    /\ canvasElements' = Append(canvasElements, [id |-> clock, type |-> elementType])
    /\ placedElements' =
           Append(placedElements, [id |-> clock, type |-> elementType, x |-> x, y |-> y])
    /\ itemCount' = Len(placedElements')
    /\ canvasGuide' = IF Len(placedElements') = 1 THEN "none" ELSE canvasGuide
    /\ UNCHANGED <<roomTypeDesign, analysis, outsideDesign, currentMode,
                   designResults, analyzeDisabled, designTimers, alertMessage, clock>>

\* document.getElementById(elementId).remove(): the first node of that id
RemoveNode(nodes, elementId) ==
    IF \E i \in DOMAIN nodes : nodes[i].id = elementId
    THEN LET first == CHOOSE i \in DOMAIN nodes :
                          /\ nodes[i].id = elementId
                          /\ \A j \in 1..(i - 1) : nodes[j].id # elementId
         IN  SubSeq(nodes, 1, first - 1) \o SubSeq(nodes, first + 1, Len(nodes))
    ELSE nodes

\* faulty variant: the guide is not shown again
removeElement_GuideHidden(elementId) ==
    /\ currentMode = "design"
    /\ alertMessage = NoAlert
    /\ canvasElements' = RemoveNode(canvasElements, elementId)
    /\ placedElements' = SelectSeq(placedElements, LAMBDA el : el.id # elementId)
    /\ itemCount' = Len(placedElements')
    /\ UNCHANGED <<roomTypeDesign, analysis, outsideDesign, currentMode, canvasGuide,
                   designResults, analyzeDisabled, designTimers, alertMessage, clock>>

\* lines 284-297
removeElement(elementId) ==
    /\ currentMode = "design"
    /\ alertMessage = NoAlert
    /\ canvasElements' = RemoveNode(canvasElements, elementId)
    /\ placedElements' = SelectSeq(placedElements, LAMBDA el : el.id # elementId)
    /\ itemCount' = Len(placedElements')
    /\ canvasGuide' = IF Len(placedElements') = 0 THEN "flex" ELSE canvasGuide
    /\ UNCHANGED <<roomTypeDesign, analysis, outsideDesign, currentMode,
                   designResults, analyzeDisabled, designTimers, alertMessage, clock>>

\* the ids of the remove buttons on the page: those of the nodes of the
\* canvas and of the entries of the placed items list (lines 120, 322)
RemovableIds ==
    {canvasElements[i].id : i \in DOMAIN canvasElements}
        \cup {placedElements[i].id : i \in DOMAIN placedElements}

\* lines 299-309, what clearCanvas writes
ClearCanvasWrites ==
    /\ canvasElements' = <<>>
    /\ placedElements' = <<>>
    /\ itemCount' = 0
    /\ canvasGuide' = "flex"
    /\ designResults' = "none"

\* lines 299-309, from the clear button
clearCanvas ==
    /\ currentMode = "design"
    /\ alertMessage = NoAlert
    /\ ClearCanvasWrites
    /\ UNCHANGED <<roomTypeDesign, analysis, outsideDesign, currentMode,
                   analyzeDisabled, designTimers, alertMessage, clock>>

\* lines 373-383: the analysis of a list that is not empty
AnalyzeAndShow ==
    /\ analyzeDisabled' = TRUE
    /\ analysis' = calculateDesignFengShui(placedElements, roomTypeDesign)
    /\ designResults' = "block"
    /\ designTimers' = designTimers + 1
    /\ UNCHANGED alertMessage

\* lines 366-369: the alert of an empty list
AlertOnly ==
    /\ alertMessage' = AlertPlaceFirst
    /\ UNCHANGED <<analysis, designResults, analyzeDisabled, designTimers>>

\* faulty variant: the button is disabled before the list is looked at
analyzeDesign_LateGuard ==
    /\ currentMode = "design"
    /\ alertMessage = NoAlert
    /\ ~analyzeDisabled
    /\ IF placedElements = <<>>
       THEN /\ alertMessage' = AlertPlaceFirst
            /\ analyzeDisabled' = TRUE
            /\ UNCHANGED <<analysis, designResults, designTimers>>
       ELSE AnalyzeAndShow
    /\ UNCHANGED <<placedElements, roomTypeDesign, outsideDesign, currentMode,
                   canvasElements, canvasGuide, itemCount, clock>>

\* lines 365-390, from the analyze button
analyzeDesign ==
    /\ currentMode = "design"
    /\ alertMessage = NoAlert
    /\ ~analyzeDisabled
    /\ IF placedElements = <<>> THEN AlertOnly ELSE AnalyzeAndShow
    /\ UNCHANGED <<placedElements, roomTypeDesign, outsideDesign, currentMode,
                   canvasElements, canvasGuide, itemCount, clock>>

\* lines 385-389: the callback of the 1 s timer
designTimerFires ==
    /\ designTimers > 0
    /\ alertMessage = NoAlert
    /\ designTimers' = designTimers - 1
    /\ analyzeDisabled' = FALSE
    /\ UNCHANGED <<scorerVars, mapVars, dashVars, uploadVars, currentMode,
                   canvasElements, canvasGuide, itemCount, designResults,
                   alertMessage, clock>>

\* the alert box is closed
dismissAlert ==
    /\ alertMessage # NoAlert
    /\ alertMessage' = NoAlert
    /\ UNCHANGED <<scorerVars, mapVars, dashVars, uploadVars, currentMode,
                   canvasElements, canvasGuide, itemCount, designResults,
                   analyzeDisabled, designTimers, clock>>

\* lines 642-663, what resetUpload writes; the previews and labels of the
\* slots are filled and emptied together with uploadedPhotos
ResetUploadWrites ==
    /\ uploadedPhotos' = [d \in Directions |-> NoPhoto]
    /\ pendingReads' = {}
    /\ staleReads' = staleReads \cup pendingReads
    /\ photoTimers' = 0
    /\ staleTimers' = staleTimers + photoTimers
    /\ analyzePhotosDisabled' = TRUE
    /\ uploadResults' = "none"
    /\ UNCHANGED uploadOverallScore

\* faulty variant: only the canvas is cleared
backToSelection_CanvasOnly ==
    /\ currentMode # NoMode
    /\ alertMessage = NoAlert
    /\ currentMode' = NoMode
    /\ ClearCanvasWrites
    /\ UNCHANGED <<roomTypeDesign, pc, analysis, mapVars, dashVars, uploadVars,
                   analyzeDisabled, designTimers, alertMessage, clock>>

\* lines 65-74
backToSelection ==
    /\ currentMode # NoMode
    /\ alertMessage = NoAlert
    /\ currentMode' = NoMode
    /\ ClearCanvasWrites
    /\ ResetUploadWrites
    /\ UNCHANGED <<roomTypeDesign, pc, analysis, mapVars, dashVars,
                   analyzeDisabled, designTimers, alertMessage, clock>>

\* the page after it has loaded, the room type select at one of two rooms
InitDesign ==
    /\ placedElements = <<>>
    /\ roomTypeDesign \in {"bedroom", "living"}
    /\ pc = "idle"
    /\ analysis = NoAnalysis
    /\ MapIdle
    /\ DashIdle
    /\ UiIdle

NextDesign ==
    \/ Tick
    \/ \E mode \in {"design", "upload"} : selectMode(mode)
    \/ \E elementType \in DesignTypes, point \in DropPoints :
          placeElement(elementType, point.x, point.y)
    \/ \E elementId \in RemovableIds : removeElement(elementId)
    \/ clearCanvas
    \/ analyzeDesign
    \/ designTimerFires
    \/ dismissAlert
    \/ backToSelection

SpecDesign == InitDesign /\ [][NextDesign]_vars

(***************************************************************************)
(* The upload mode of the indoor page                                      *)
(***************************************************************************)
\* most FileReaders at work at a time
MaxReads == 1

\* most 2 s timers pending at a time
MaxTimers == 1

\* e.target.result, the data URL of a photo
Photo == "data:image"

\* Math.floor(Math.random() * 15) - 7 is one of -7 .. 7
Variations == {-7, 7}

\* what no handler of the upload mode writes
outsideUpload == <<scorerVars, mapVars, dashVars, designVars>>

\* lines 611-629 up to readAsDataURL, for a chosen file
previewPhoto(direction) ==
    /\ currentMode = "upload"
    /\ Cardinality(pendingReads) + Cardinality(staleReads) < MaxReads
    /\ direction \notin pendingReads
    /\ pendingReads' = pendingReads \cup {direction}
    /\ UNCHANGED <<outsideUpload, uploadedPhotos, staleReads, analyzePhotosDisabled,
                   photoTimers, staleTimers, uploadResults, uploadOverallScore>>

\* lines 632: the slots that hold a photo
uploadCount(photos) == Cardinality({d \in Directions : photos[d] # NoPhoto})

\* lines 615-626 and checkUploadComplete, lines 631-640: what reader.onload
\* writes
OnloadWrites(direction) ==
    /\ uploadedPhotos' = [uploadedPhotos EXCEPT ![direction] = Photo]
    /\ analyzePhotosDisabled' = ~(uploadCount(uploadedPhotos') >= 3)
    /\ UNCHANGED <<outsideUpload, photoTimers, staleTimers, uploadResults,
                   uploadOverallScore>>

\* reader.onload of a read started since the last resetUpload
readerOnload(direction) ==
    /\ direction \in pendingReads
    /\ pendingReads' = pendingReads \ {direction}
    /\ OnloadWrites(direction)
    /\ UNCHANGED staleReads

\* reader.onload of a read that a resetUpload found at work
staleReaderOnload(direction) ==
    /\ direction \in staleReads
    /\ staleReads' = staleReads \ {direction}
    /\ OnloadWrites(direction)
    /\ UNCHANGED pendingReads

\* lines 665-678 up to setTimeout, from #analyzePhotosBtn
analyzePhotos ==
    /\ currentMode = "upload"
    /\ ~analyzePhotosDisabled
    /\ photoTimers + staleTimers < MaxTimers
    /\ analyzePhotosDisabled' = TRUE
    /\ photoTimers' = photoTimers + 1
    /\ UNCHANGED <<outsideUpload, uploadedPhotos, pendingReads, staleReads,
                   staleTimers, uploadResults, uploadOverallScore>>

\* lines 680-708: the overall score of the simulated analysis; its category
\* scores are random numbers that depend on nothing
simulatePhotoAnalysis(variation) ==
    LET baseScore == 60 + uploadCount(uploadedPhotos) * 5
    IN  Min(100, IF baseScore + variation < 50 THEN 50 ELSE baseScore + variation)

\* lines 671-676 and displayUploadResults, lines 710-775: what the callback
\* of the 2 s timer writes
TimerWrites(variation) ==
    /\ uploadOverallScore' = simulatePhotoAnalysis(variation)
    /\ uploadResults' = "block"
    /\ analyzePhotosDisabled' = FALSE
    /\ UNCHANGED <<outsideUpload, uploadedPhotos, pendingReads, staleReads>>

\* the callback of a timer started since the last resetUpload
photoTimerFires(variation) ==
    /\ photoTimers > 0
    /\ photoTimers' = photoTimers - 1
    /\ TimerWrites(variation)
    /\ UNCHANGED staleTimers

\* the callback of a timer that a resetUpload found pending
stalePhotoTimerFires(variation) ==
    /\ staleTimers > 0
    /\ staleTimers' = staleTimers - 1
    /\ TimerWrites(variation)
    /\ UNCHANGED photoTimers

\* lines 642-663, called on its own in the upload mode
resetUpload ==
    /\ currentMode = "upload"
    /\ ResetUploadWrites
    /\ UNCHANGED outsideUpload

\* a bed and a mirror on the canvas, as placeElement leaves them
TwoPlaced ==
    <<[id |-> 0, type |-> "bed", x |-> 40, y |-> 60],
      [id |-> 1, type |-> "mirror", x |-> 40, y |-> 60]>>

\* the page after it has loaded, or the design mode with two items placed
\* and analysed and the 1 s timer of the analysis still pending
InitUpload ==
    /\ roomTypeDesign = "bedroom"
    /\ pc = "idle"
    /\ MapIdle
    /\ DashIdle
    /\ UploadIdle
    /\ \/ placedElements = <<>> /\ analysis = NoAnalysis /\ DesignIdle
       \/ /\ placedElements = TwoPlaced
          /\ analysis = calculateDesignFengShui(TwoPlaced, "bedroom")
          /\ currentMode = "design"
          /\ canvasElements = [i \in 1..2 |-> [id |-> TwoPlaced[i].id, type |-> TwoPlaced[i].type]]
          /\ canvasGuide = "none"
          /\ itemCount = 2
          /\ designResults = "block"
          /\ analyzeDisabled = TRUE
          /\ designTimers = 1
          /\ alertMessage = NoAlert
          /\ clock = 1

NextUpload ==
    \/ \E mode \in {"design", "upload"} : selectMode(mode)
    \/ backToSelection
    \/ designTimerFires
    \/ \E direction \in Directions : previewPhoto(direction)
    \/ \E direction \in Directions : readerOnload(direction)
    \/ \E direction \in Directions : staleReaderOnload(direction)
    \/ analyzePhotos
    \/ \E variation \in Variations : photoTimerFires(variation)
    \/ \E variation \in Variations : stalePhotoTimerFires(variation)
    \/ resetUpload

SpecUpload == InitUpload /\ [][NextUpload]_vars


(***************************************************************************)
(* Vocabulary of the properties: the quantities of the claims, computed    *)
(* from the item list in exact integer arithmetic                          *)
(***************************************************************************)
Returned == pc = "returned"

PlacedTypes == {placedElements[i].type : i \in DOMAIN placedElements}

Catalogued == {i \in DOMAIN placedElements : placedElements[i].type \in CatalogKeys}

NumElement(e) ==
    Cardinality({i \in Catalogued :
                    elementFengShuiData[placedElements[i].type].element = e})

NumYang ==
    Cardinality({i \in Catalogued :
                    elementFengShuiData[placedElements[i].type].energy = "yang"})

NumYin == Cardinality(Catalogued) - NumYang

Abs(x) == IF x < 0 THEN -x ELSE x

Max(a, b) == IF a >= b THEN a ELSE b

Recommended == {analysis.recommendations[i] : i \in DOMAIN analysis.recommendations}

\* 100 * (0.30 a + 0.25 b + 0.25 c + 0.20 d)
Weighted100 ==
    30 * analysis.elementBalance + 25 * analysis.energyScore
        + 25 * analysis.spacialScore + 20 * analysis.functionalScore

\* C1: overallScore is the nearest integer, halves up, to
\* 0.30 elementBalance + 0.25 energyScore + 0.25 spacialScore
\* + 0.20 functionalScore of the same result.
C1_OverallIsWeightedRound ==
    Returned =>
        /\ 100 * analysis.overallScore - 50 <= Weighted100
        /\ Weighted100 < 100 * analysis.overallScore + 50

\* a result whose weighted sum is exactly a half, rounded up
C1_Witness ==
    /\ Returned
    /\ placedElements # <<>>
    /\ Weighted100 % 100 = 50
    /\ 100 * analysis.overallScore = Weighted100 + 50

\* total absolute deviation of the five counts from total / 5, times 5
Deviation5 ==
    LET total == Cardinality(Catalogued)
    IN  Abs(5 * NumElement("wood") - total) + Abs(5 * NumElement("fire") - total)
          + Abs(5 * NumElement("earth") - total) + Abs(5 * NumElement("metal") - total)
          + Abs(5 * NumElement("water") - total)

\* round(max(0, 100 - 50 * (Deviation5 / 5) / total)), halves up, total > 0
ExactBalance(total) ==
    Max(0, (201 * total - 20 * Deviation5) \div (2 * total))

\* C2: elementBalance = round(max(0, 100 - 50 * sum_e |count_e - total/5|
\* / total)), and 0 when the five counts sum to zero.
C2_BalanceFormula ==
    Returned =>
        LET total == Cardinality(Catalogued)
        IN  analysis.elementBalance = (IF total = 0 THEN 0 ELSE ExactBalance(total))

\* the tier of a Yang share yang / (yin + yang), yin + yang > 0
Tier(yin, yang) ==
    LET total == yin + yang
    IN  IF 5 * yang >= 2 * total /\ 5 * yang <= 3 * total THEN 100
        ELSE IF 10 * yang >= 3 * total /\ 10 * yang <= 7 * total THEN 80
        ELSE 60

\* distance of the Yang share from the band [0.4, 0.6], times 5 (yin + yang)
BandDistance5(yin, yang) ==
    Max(0, Max(2 * (yin + yang) - 5 * yang, 5 * yang - 3 * (yin + yang)))

\* largest tally the monotonicity of C3 is compared with
MaxEnergy == 7

EnergyPairs ==
    {e \in [yin : 0..MaxEnergy, yang : 0..MaxEnergy] : e.yin + e.yang > 0}

EnergyScores == [e \in EnergyPairs |-> calculateEnergyBalanceScore(e)]

\* C3: with at least one catalogued item energyScore is 100 for a Yang share
\* in [0.4, 0.6], 80 outside it but in [0.3, 0.7], 60 otherwise, neutral
\* items counted as yin; a share at least as far from the band never scores
\* higher.
C3_EnergyTiers ==
    (Returned /\ Catalogued # {}) =>
        \A yin \in {NumYin}, yang \in {NumYang} :
            /\ analysis.energyScore = Tier(yin, yang)
            /\ \A e \in EnergyPairs :
                  BandDistance5(e.yin, e.yang) * (yin + yang)
                        >= BandDistance5(yin, yang) * (e.yin + e.yang)
                     => EnergyScores[e] <= analysis.energyScore

\* a neutral table and a yang tv: half of the energy is Yang only because
\* the table counts as yin
C3_Witness ==
    /\ Returned
    /\ PlacedTypes = {"table", "tv"}
    /\ NumYin = 1
    /\ NumYang = 1
    /\ analysis.energyScore = 100

\* C4 (as claimed): energyScore is 100, 80 or 60 for every item list,
\* the empty list and lists without catalogued item included.
C4_AlwaysThreeTiers ==
    Returned => analysis.energyScore \in {100, 80, 60}

\* C4 (amended): energyScore is 100, 80 or 60 for every list with a
\* catalogued item, and 50 for every list without one.
C4_TiersOrNeutral ==
    Returned =>
        IF Catalogued = {} THEN analysis.energyScore = 50
        ELSE analysis.energyScore \in {100, 80, 60}

\* a non-empty list without catalogued item, scored
C4_Witness ==
    /\ Returned
    /\ placedElements # <<>>
    /\ Catalogued = {}
    /\ analysis.energyScore = 50

\* the step function of C5, by the count n
Step(n) ==
    IF n >= 20 THEN 50 ELSE <<90, 85, 75, 65>>[(n \div 5) + 1]

\* C5: spacialScore is 90 / 85 / 75 / 65 / 50 for n < 5 / < 10 / < 15 /
\* < 20 / >= 20 items, and one more item never raises it.
C5_SpacialSteps ==
    Returned =>
        /\ analysis.spacialScore = Step(Len(placedElements))
        /\ \A t \in AllTypes :
              calculateSpacialScore(
                  Append(placedElements, [id |-> Len(placedElements) + 1, type |-> t]))
                <= analysis.spacialScore

\* a list at the first breakpoint, where the score has just dropped
C5_Witness ==
    /\ Returned
    /\ Len(placedElements) = 5
    /\ analysis.spacialScore = 85

KnownRooms == {"bedroom", "living", "office"}

\* C6: for every room type other than bedroom, living and office, the
\* empty one included, functionalScore is the base 70 whatever is placed
\* (the call has no failing path: C6_Witness is such a call, returned).
C6_UnknownRoomBase ==
    (Returned /\ roomTypeDesign \notin KnownRooms) =>
        analysis.functionalScore = 70

\* an unknown room type with items that earn bonuses in the known rooms
C6_Witness ==
    /\ Returned
    /\ roomTypeDesign \notin KnownRooms
    /\ {"desk", "chair", "plant", "bookshelf"} \subseteq PlacedTypes
    /\ analysis.functionalScore = 70

WithoutMirrors == SelectSeq(placedElements, LAMBDA e : e.type # "mirror")

\* C7: a bedroom with a bed and a mirror scores exactly 10 less than the
\* same layout without its mirrors (the bed bonus is cancelled: 70 plus the
\* plant and lamp bonuses), and the mirror warning is recommended.
C7_MirrorFacingBed ==
    (Returned /\ roomTypeDesign = "bedroom"
        /\ "bed" \in PlacedTypes /\ "mirror" \in PlacedTypes) =>
        /\ analysis.functionalScore
              = calculateFunctionalScore(WithoutMirrors, "bedroom") - 10
        /\ analysis.functionalScore
              = 70 + Bonus("plant" \in PlacedTypes, 5) + Bonus("lamp" \in PlacedTypes, 5)
        /\ RecMirror \in Recommended

\* a bedroom with bed, mirror, plant and lamp: the highest score the
\* penalty applies to
C7_Witness ==
    /\ Returned
    /\ roomTypeDesign = "bedroom"
    /\ {"bed", "mirror", "plant", "lamp"} \subseteq PlacedTypes
    /\ analysis.functionalScore = 80
    /\ RecMirror \in Recommended

\* C8: on the empty list, for any room type, elementBalance = 0,
\* spacialScore = 90, functionalScore = 70 and the recommendations are
\* non-empty with all five element deficiency messages.
C8_EmptyList ==
    (Returned /\ placedElements = <<>>) =>
        /\ analysis.elementBalance = 0
        /\ analysis.spacialScore = 90
        /\ analysis.functionalScore = 70
        /\ analysis.recommendations # <<>>
        /\ {RecWood, RecFire, RecWater, RecEarth, RecMetal} \subseteq Recommended

\* the empty list scored for a room type with rules of its own
C8_Witness ==
    /\ Returned
    /\ placedElements = <<>>
    /\ roomTypeDesign = "bedroom"
    /\ Len(analysis.recommendations) >= 5

\* every item is catalogued and they all map to one element
SingleElement ==
    /\ placedElements # <<>>
    /\ Catalogued = DOMAIN placedElements
    /\ \E e \in {"wood", "fire", "earth", "metal", "water"} :
          NumElement(e) = Len(placedElements)

\* C9: when every placed item maps to the same element, elementBalance is
\* near 0: no more than 10.
C9_SingleElementNearZero ==
    (Returned /\ SingleElement) => analysis.elementBalance <= 10

TwentyTvs == MkItems(Repeat("tv", 20))

\* C10: 20 items of type tv, in any room type: energyScore is 60, the
\* add-wood, add-water, add-earth, add-metal, excess-yang and clutter
\* messages are recommended and the add-fire message is not.
C10_TwentyTvs ==
    (Returned /\ placedElements = TwentyTvs) =>
        /\ analysis.energyScore = 60
        /\ {RecWood, RecWater, RecEarth, RecMetal, RecYang, RecClutter}
              \subseteq Recommended
        /\ RecFire \notin Recommended

\* the 20 tvs scored in an office
C10_Witness ==
    /\ Returned
    /\ placedElements = TwentyTvs
    /\ roomTypeDesign = "office"
    /\ RecClutter \in Recommended

\* the place of a message in the priority order: the five element
\* deficiencies, the energy imbalance, the bedroom messages, the clutter
\* warning; the affirmative message comes with no other
Priority(msg) ==
    CASE msg = RecWood    -> 1
      [] msg = RecFire    -> 2
      [] msg = RecWater   -> 3
      [] msg = RecEarth   -> 4
      [] msg = RecMetal   -> 5
      [] msg = RecYang    -> 6
      [] msg = RecYin     -> 6
      [] msg = RecPlants  -> 7
      [] msg = RecMirror  -> 7
      [] msg = RecClutter -> 8
      [] OTHER            -> 9

\* the two bedroom messages share a place, every other place holds at most
\* one message
InOrder(first, second) ==
    \/ Priority(first) < Priority(second)
    \/ Priority(first) = 7 /\ Priority(second) = 7

\* C11: however the placed items are ordered, the messages of the
\* recommendations come in one priority order: element deficiencies (wood,
\* fire, water, earth, metal), then the energy imbalance, then the bedroom
\* messages, then the clutter warning.
C11_PriorityOrder ==
    Returned =>
        \A i \in 1..(Len(analysis.recommendations) - 1) :
            InOrder(analysis.recommendations[i], analysis.recommendations[i + 1])

\* a bedroom whose list has messages of all four groups
C11_Witness ==
    /\ Returned
    /\ roomTypeDesign = "bedroom"
    /\ {RecWood, RecYang, RecPlants, RecClutter} \subseteq Recommended
    /\ analysis.recommendations[1] = RecWood
    /\ analysis.recommendations[Len(analysis.recommendations)] = RecClutter

RuleMessages ==
    {RecWood, RecFire, RecWater, RecEarth, RecMetal, RecYang, RecYin,
     RecPlants, RecMirror, RecClutter}

\* C12: the recommendations are never empty; the affirmative message is in
\* the list exactly when no deficiency, energy, room or clutter message is,
\* and then it is the whole list.
C12_AffirmativeAlone ==
    Returned =>
        /\ analysis.recommendations # <<>>
        /\ RecGood \in Recommended <=> Recommended \cap RuleMessages = {}
        /\ RecGood \in Recommended => analysis.recommendations = <<RecGood>>

\* the complete room in a living room: no rule has anything to say
C12_Witness ==
    /\ Returned
    /\ placedElements = MkItems(CompleteRoom)
    /\ roomTypeDesign = "living"
    /\ analysis.recommendations = <<RecGood>>

Occurrences(msg) ==
    Cardinality({i \in DOMAIN analysis.recommendations :
                    analysis.recommendations[i] = msg})

\* the message is in the list once when its rule's condition holds, and not
\* at all when it does not
OnceIff(msg, condition) == Occurrences(msg) = (IF condition THEN 1 ELSE 0)

\* C13: each rule's message is in the list at most once, and exactly when
\* the rule's own condition holds: add-wood iff fewer than 2 wood items,
\* add-fire iff no fire item, add-water iff no water item, add-earth iff
\* fewer than 2 earth items, add-metal iff no metal item, add-plants iff
\* bedroom without a plant, mirror warning iff bedroom with a mirror.
C13_RulesIndependent ==
    Returned =>
        /\ OnceIff(RecWood, NumElement("wood") < 2)
        /\ OnceIff(RecFire, NumElement("fire") = 0)
        /\ OnceIff(RecWater, NumElement("water") = 0)
        /\ OnceIff(RecEarth, NumElement("earth") < 2)
        /\ OnceIff(RecMetal, NumElement("metal") = 0)
        /\ OnceIff(RecPlants, roomTypeDesign = "bedroom" /\ "plant" \notin PlacedTypes)
        /\ OnceIff(RecMirror, roomTypeDesign = "bedroom" /\ "mirror" \in PlacedTypes)

\* a bedroom with a mirror and no plant: both bedroom messages, next to
\* deficiency messages
C13_Witness ==
    /\ Returned
    /\ roomTypeDesign = "bedroom"
    /\ "mirror" \in PlacedTypes
    /\ "plant" \notin PlacedTypes
    /\ {RecWood, RecPlants, RecMirror} \subseteq Recommended
    /\ RecWater \notin Recommended

\* C14: the clutter warning is recommended exactly when the list has at
\* least 20 items, that is exactly when spacialScore is at its lowest tier
\* of 50.
C14_ClutterFromTwenty ==
    Returned =>
        /\ RecClutter \in Recommended <=> Len(placedElements) >= 20
        /\ Len(placedElements) >= 20 <=> analysis.spacialScore = 50

ElementSet == {ElementNames[i] : i \in DOMAIN ElementNames}

\* C15: for a list of catalogued items elementCounts has the five keys wood,
\* fire, earth, metal, water, each the number of items of that element, and
\* yin + yang is the sum of the five counts, which is the number of items.
C15_Tallies ==
    (Returned /\ PlacedTypes \subseteq CatalogKeys) =>
        /\ DOMAIN analysis.elementCounts = ElementSet
        /\ \A e \in ElementSet : analysis.elementCounts[e] = NumElement(e)
        /\ analysis.energyBalance.yin + analysis.energyBalance.yang
              = Len(placedElements)
        /\ analysis.elementCounts.wood + analysis.elementCounts.fire
              + analysis.elementCounts.earth + analysis.elementCounts.metal
              + analysis.elementCounts.water
              = Len(placedElements)

\* three catalogued items of three elements, the neutral table among them
C15_Witness ==
    /\ Returned
    /\ PlacedTypes = {"table", "tv", "bed"}
    /\ Len(placedElements) = 3
    /\ analysis.elementCounts.wood = 1
    /\ analysis.energyBalance.yin = 2

\* C17: a list with an item whose type is no key of the catalog is not
\* scored: no call on such a list returns an analysis.
C17_UnknownKeyRejected ==
    Returned => PlacedTypes \subseteq CatalogKeys

Scores ==
    {analysis.elementBalance, analysis.energyScore, analysis.spacialScore,
     analysis.functionalScore, analysis.overallScore}

\* C20: for every item list and room type elementBalance, energyScore,
\* spacialScore, functionalScore and overallScore are integers of 0..100.
C20_ScoresInRange ==
    Returned => Scores \subseteq 0..100

\* one item of every element: elementBalance at the top of the range, next
\* to an overallScore inside it
C20_Witness ==
    /\ Returned
    /\ analysis.elementBalance = 100
    /\ analysis.energyScore = 100
    /\ analysis.overallScore < 100

\* the members of a set in some fixed order
RECURSIVE SeqOf(_)
SeqOf(S) ==
    IF S = {} THEN <<>>
    ELSE LET t == CHOOSE t \in S : TRUE IN <<t>> \o SeqOf(S \ {t})

TypeOrder == SeqOf(AllTypes)

PlacedOfType(t) ==
    Cardinality({i \in DOMAIN placedElements : placedElements[i].type = t})

\* the types of placedElements, from the k-th type of TypeOrder on, grouped
\* in that order
RECURSIVE GroupedFrom(_)
GroupedFrom(k) ==
    IF k > Len(TypeOrder) THEN <<>>
    ELSE Repeat(TypeOrder[k], PlacedOfType(TypeOrder[k])) \o GroupedFrom(k + 1)

\* the items of placedElements rearranged into the one order every
\* permutation of them shares, with other ids and other positions
Rearranged ==
    LET types == GroupedFrom(1)
    IN  [i \in 1..Len(types) |->
            [id |-> 1000 + i, type |-> types[i], x |-> 300 - i, y |-> 7 * i]]

\* C16: the analysis depends on the multiset of item types and the room
\* type only: a list returns what the rearrangement of its items, under
\* other ids and positions, returns (so any two permutations of a list
\* return the same scores, counts and recommendations), and a call leaves
\* placedElements as it was.
C16_PureOfMultiset ==
    /\ [](Returned =>
            analysis = calculateDesignFengShui(Rearranged, roomTypeDesign))
    /\ [][placedElements' = placedElements]_vars

\* three items of three types that are not in the shared order
C16_Witness ==
    /\ Returned
    /\ Len(placedElements) = 3
    /\ Cardinality(PlacedTypes) = 3
    /\ "bed" \in PlacedTypes
    /\ roomTypeDesign = "bedroom"
    /\ [i \in DOMAIN placedElements |-> placedElements[i].type]
          # [i \in DOMAIN Rearranged |-> Rearranged[i].type]

\* C18: the dashboard shows the AI sub-score exactly when the response has
\* an ai_score, whatever its value in [0, 100], and shows the final and the
\* traditional score in both cases.
C18_AiScoreOptional ==
    dashboard.view = "results" =>
        /\ dashboard.ai # NoSpan <=> "ai_score" \in DOMAIN data
        /\ dashboard.finalScore # NoSpan
        /\ dashboard.traditional # NoSpan

\* the radius input holds no digit at all
NoDigits(s) == \A i \in DOMAIN s : s[i] \notin DigitChars

\* C19: the radius of every analysis request and of the drawn circle is an
\* integer of 100..5000 whatever the radius input holds, and it is 500 for
\* an empty or non-numeric input.
C19_RadiusBounded ==
    /\ requestData # NoRequest => requestData.radius \in 100..5000
    /\ circle # NoCircle =>
          /\ circle.radius \in 100..5000
          /\ NoDigits(radiusValue) => circle.radius = 500

\* C21: analyzeDesign on an empty placedElements only raises the 'Please
\* place some elements' alert: the step that raises the alert starts from an
\* empty list and leaves the analysis, the results panel, the analyze button
\* and its timers as they were, and no step from an empty list computes an
\* analysis, shows the panel or disables the button.
C21_EmptyOnlyAlerts ==
    [][/\ (alertMessage = NoAlert /\ alertMessage' # NoAlert) =>
              /\ placedElements = <<>>
              /\ alertMessage' = AlertPlaceFirst
              /\ UNCHANGED <<placedElements, analysis, designResults,
                             analyzeDisabled, designTimers>>
       /\ placedElements = <<>> =>
              /\ analysis' = analysis
              /\ designResults' = "block" => designResults = "block"
              /\ analyzeDisabled' => analyzeDisabled]_vars

\* the alert is up over a results panel that an earlier analysis filled
C21_Witness ==
    /\ alertMessage = AlertPlaceFirst
    /\ placedElements = <<>>
    /\ designResults = "block"
    /\ analysis # NoAnalysis
    /\ ~analyzeDisabled

\* C24: from an empty canvas with the guide shown, after any placeElement,
\* removeElement and clearCanvas the guide is visible exactly when
\* placedElements is empty, and the displayed item count is the length of
\* placedElements.
C24_GuideAndCount ==
    /\ canvasGuide = "flex" <=> placedElements = <<>>
    /\ canvasGuide \in {"flex", "none"}
    /\ itemCount = Len(placedElements)

\* the last item was taken off by removeElement: only removeElement leaves
\* an empty list under a shown results panel
C24_Witness ==
    /\ placedElements = <<>>
    /\ designResults = "block"
    /\ canvasGuide = "flex"
    /\ itemCount = 0

\* C25: the entries of placedElements have pairwise distinct ids, and the
\* list and the nodes of the canvas correspond one to one.
C25_DistinctIds ==
    /\ \A i, j \in DOMAIN placedElements :
          i # j => placedElements[i].id # placedElements[j].id
    /\ [i \in DOMAIN canvasElements |-> canvasElements[i].id]
          = [i \in DOMAIN placedElements |-> placedElements[i].id]

\* C26: the design results panel is displayed only while placedElements is
\* not empty.
C26_ResultsOnlyWithItems ==
    designResults = "block" => placedElements # <<>>

\* C22: right after backToSelection, whatever came before it, currentMode is
\* null, placedElements is empty, the five photo slots are null, the
\* analyze-photos button is disabled and the design and the upload results
\* panels are hidden. backToSelection is the one step that makes currentMode
\* null.
C22_BackResets ==
    [][(currentMode # NoMode /\ currentMode' = NoMode) =>
          /\ placedElements' = <<>>
          /\ \A d \in Directions : uploadedPhotos'[d] = NoPhoto
          /\ analyzePhotosDisabled'
          /\ designResults' = "none"
          /\ uploadResults' = "none"]_vars

\* back on the selection page after a design that was analysed and an
\* upload whose analysis timer was still pending
C22_Witness ==
    /\ currentMode = NoMode
    /\ analysis # NoAnalysis
    /\ staleTimers > 0
    /\ placedElements = <<>>
    /\ analyzePhotosDisabled
    /\ uploadResults = "none"

\* C23: in the upload mode the analyze-photos button is never enabled while
\* fewer than 3 of the 5 slots hold a photo.
C23_ButtonNeedsThree ==
    (currentMode = "upload" /\ ~analyzePhotosDisabled) =>
        uploadCount(uploadedPhotos) >= 3

\* C27: a file read or an analysis timer that was started before a
\* resetUpload changes no photo slot and does not display the upload
\* results when it completes after it.
C27_StaleCallbacksInert ==
    [][((staleReads' # staleReads /\ staleReads' \subseteq staleReads)
            \/ staleTimers' < staleTimers) =>
          /\ uploadedPhotos' = uploadedPhotos
          /\ uploadResults' = uploadResults]_vars

\* the display and the address agree with the coordinates of
\* selectedLocation
DescribesSelection ==
    /\ locationDisplay # NoDisplay
    /\ locationDisplay.coords = CoordsText(selectedLocation.lat, selectedLocation.lng)
    /\ locationDisplay.addressText \in {formattedAddress(selectedLocation.lat, selectedLocation.lng), CoordsText(selectedLocation.lat, selectedLocation.lng)}
    /\ selectedLocation.address \in {formattedAddress(selectedLocation.lat, selectedLocation.lng), LoadingAddress}

\* C28: once every reply of the geocoder has arrived, the location display
\* and selectedLocation.address describe the location selected last, the
\* one selectedLocation holds: no reply to an earlier click has overwritten
\* them.
C28_LatestSelectionShown ==
    (selectedLocation # NoLocation /\ pendingGeocodes = {} /\ pendingSearches = {}) => DescribesSelection

\* C29: once every response or failure has arrived, the dashboard shows
\* the outcome of the request started last, whatever the order of arrival,
\* and it does not show the loading state.
C29_LatestOutcomeShown ==
    (requestsStarted > 0 /\ pendingRequests = {}) =>
        /\ shownRequest = requestsStarted
        /\ dashboard.view \in {"results", "error"}

=============================================================================
